---- MODULE Spec2Model ----
(***************************************************************************)
(* Model of the /generate_meal_plan pipeline of src/new.py: the generative *)
(* call, the extraction and validation of the meal list from its text, the *)
(* concurrent nutrient lookups (asyncio.gather over one aiohttp session)   *)
(* and the assembly of the response.                                       *)
(*                                                                         *)
(* Text is a sequence of symbols.  In the text of the generative model a   *)
(* symbol is one character of JSON punctuation (a bracket, brace, quote,   *)
(* comma, colon, space) or a run of letters or digits without punctuation  *)
(* ("Salad", "Here", "null", "1").  No run is a concatenation of other     *)
(* runs, so a text has one spelling.  The text of an exception or of a log *)
(* line is a sequence of phrases.  The request's fields only reach the     *)
(* prompt and the "day" of the result; the answer of the generative model  *)
(* is any text, whatever the prompt, so they are not part of the state.    *)
(***************************************************************************)
EXTENDS Integers, Sequences, FiniteSets, TLC

(* ------------------------------------------------------------------ *)
(* Bounds                                                               *)
(* ------------------------------------------------------------------ *)
MaxMeals == 2
MaxLen == 3

(* ------------------------------------------------------------------ *)
(* Python values (json.loads results, response.json() results)          *)
(* ------------------------------------------------------------------ *)
PyStr(s) == [t |-> "str", v |-> s]
PyNum(d) == [t |-> "num", v |-> d]
PyNull == [t |-> "null", v |-> <<>>]
PyList(xs) == [t |-> "list", v |-> xs]
PyDict(kvs) == [t |-> "dict", v |-> kvs]

isinstance_list(x) == x.t = "list"

(* ------------------------------------------------------------------ *)
(* str.strip(), re.search(r'\[.*?\]', s, re.DOTALL), json.loads         *)
(* ------------------------------------------------------------------ *)
Whitespace == {" "}
Digits == {"1"}

RECURSIVE strip(_)
strip(s) ==
    IF s = <<>> THEN s
    ELSE IF Head(s) \in Whitespace THEN strip(Tail(s))
    ELSE IF s[Len(s)] \in Whitespace THEN strip(SubSeq(s, 1, Len(s) - 1))
    ELSE s

\* Positions of symbol c in s at or after index i.
Positions(s, c, i) == {k \in i..Len(s) : s[k] = c}

Min(S) == CHOOSE k \in S : \A j \in S : k <= j

NoMatch == [found |-> FALSE, start |-> 0, stop |-> 0]

\* Leftmost, non-greedy match of  \[.*?\]  with DOTALL: from the first "["
\* that has a "]" after it, to the first such "]".
re_search(s) ==
    LET opens == Positions(s, "[", 1)
    IN  IF opens = {} THEN NoMatch
        ELSE LET i == Min(opens)
                 closes == Positions(s, "]", i + 1)
             IN  IF closes = {} THEN NoMatch
                 ELSE [found |-> TRUE, start |-> i, stop |-> Min(closes)]

group0(s, m) == SubSeq(s, m.start, m.stop)

\* The decoder: a result is [ok, val, pos] with pos the index after the value,
\* or [ok |-> FALSE, msg] with msg the JSONDecodeError's message.
Decoded(val, pos) == [ok |-> TRUE, val |-> val, pos |-> pos, msg |-> ""]
DecodeError(msg) == [ok |-> FALSE, val |-> PyNull, pos |-> 0, msg |-> msg]

RECURSIVE SkipWs(_, _)
SkipWs(s, i) ==
    IF i <= Len(s) /\ s[i] \in Whitespace THEN SkipWs(s, i + 1) ELSE i

RECURSIVE NumberEnd(_, _)
NumberEnd(s, i) ==
    IF i <= Len(s) /\ s[i] \in Digits THEN NumberEnd(s, i + 1) ELSE i

RECURSIVE scan_once(_, _)
RECURSIVE parse_array(_, _, _)
RECURSIVE parse_object(_, _, _)

scanstring(s, i) ==
    LET quotes == Positions(s, "\"", i)
    IN  IF quotes = {} THEN DecodeError("Unterminated string starting at")
        ELSE LET j == Min(quotes)
             IN  Decoded(PyStr(SubSeq(s, i, j - 1)), j + 1)

\* One JSON value starting at index i.
scan_once(s, i) ==
    IF i > Len(s) THEN DecodeError("Expecting value")
    ELSE IF s[i] = "\"" THEN scanstring(s, i + 1)
    ELSE IF s[i] = "[" THEN
        LET k == SkipWs(s, i + 1)
        IN  IF k <= Len(s) /\ s[k] = "]" THEN Decoded(PyList(<<>>), k + 1)
            ELSE parse_array(s, k, <<>>)
    ELSE IF s[i] = "{" THEN
        LET k == SkipWs(s, i + 1)
        IN  IF k <= Len(s) /\ s[k] = "}" THEN Decoded(PyDict(<<>>), k + 1)
            ELSE parse_object(s, k, <<>>)
    ELSE IF s[i] = "null" THEN Decoded(PyNull, i + 1)
    ELSE IF s[i] \in Digits THEN
        LET e == NumberEnd(s, i)
        IN  Decoded(PyNum(SubSeq(s, i, e - 1)), e)
    ELSE DecodeError("Expecting value")

\* The elements of an array from index i on, acc the elements read so far.
parse_array(s, i, acc) ==
    LET r == scan_once(s, i)
    IN  IF ~r.ok THEN r
        ELSE LET k == SkipWs(s, r.pos)
                 vals == Append(acc, r.val)
             IN  IF k > Len(s) THEN DecodeError("Expecting ',' delimiter")
                 ELSE IF s[k] = "]" THEN Decoded(PyList(vals), k + 1)
                 ELSE IF s[k] = "," THEN parse_array(s, SkipWs(s, k + 1), vals)
                 ELSE DecodeError("Expecting ',' delimiter")

\* The members of an object from index i on, acc the pairs read so far.
parse_object(s, i, acc) ==
    IF i > Len(s) \/ s[i] # "\"" THEN
        DecodeError("Expecting property name enclosed in double quotes")
    ELSE
        LET key == scanstring(s, i + 1)
        IN  IF ~key.ok THEN key
            ELSE LET c == SkipWs(s, key.pos)
                 IN  IF c > Len(s) \/ s[c] # ":" THEN DecodeError("Expecting ':' delimiter")
                     ELSE LET r == scan_once(s, SkipWs(s, c + 1))
                          IN  IF ~r.ok THEN r
                              ELSE LET k == SkipWs(s, r.pos)
                                       kvs == Append(acc, <<key.val.v, r.val>>)
                                   IN  IF k > Len(s) THEN DecodeError("Expecting ',' delimiter")
                                       ELSE IF s[k] = "}" THEN Decoded(PyDict(kvs), k + 1)
                                       ELSE IF s[k] = "," THEN parse_object(s, SkipWs(s, k + 1), kvs)
                                       ELSE DecodeError("Expecting ',' delimiter")

\* json.loads: one value, whitespace around it, nothing after it.
json_loads(s) ==
    LET r == scan_once(s, SkipWs(s, 1))
    IN  IF ~r.ok THEN r
        ELSE IF SkipWs(s, r.pos) <= Len(s) THEN DecodeError("Extra data")
        ELSE r

(* ------------------------------------------------------------------ *)
(* Exceptions: a type and the text str(e) gives                         *)
(* ------------------------------------------------------------------ *)
Exc(type, text) == [type |-> type, str |-> text]

\* starlette's HTTPException: str(e) is "<status_code>: <detail>".
HTTPException(status_code, detail) ==
    [type |-> "HTTPException", str |-> <<status_code, ": ">> \o detail]

\* x in s, for a symbol x that is one run of the text s.
Contains(s, x) == \E i \in 1..Len(s) : s[i] = x

(* ------------------------------------------------------------------ *)
(* fetch_nutritional_info                                               *)
(* ------------------------------------------------------------------ *)
Returned(val) == [ok |-> TRUE, val |-> val, exc |-> Exc("", <<>>)]
Raised(exc) == [ok |-> FALSE, val |-> <<>>, exc |-> exc]

\* Variant: one more nutrient kept.
WantedNutrientsAndSodium ==
    {<<"Energy">>, <<"Protein">>, <<"Fiber, total dietary">>, <<"Probiotics">>,
     <<"Sodium">>}

WantedNutrients ==
    {<<"Energy">>, <<"Protein">>, <<"Fiber, total dietary">>, <<"Probiotics">>}

HasKey(d, key) == \E i \in 1..Len(d.v) : d.v[i][1] = key

\* d.get(key, default) of a dict value.
DictGet(d, key, default) ==
    IF HasKey(d, key)
    THEN d.v[CHOOSE i \in 1..Len(d.v) : d.v[i][1] = key][2]
    ELSE default

\* "foods" in data
FoodsIn(data) ==
    CASE data.t = "dict" -> Returned(HasKey(data, <<"foods">>))
      [] data.t = "list" -> Returned(\E i \in 1..Len(data.v) : data.v[i] = PyStr(<<"foods">>))
      [] data.t = "str" -> Returned(Contains(data.v, "foods"))
      [] OTHER -> Raised(Exc("TypeError", <<"argument is not iterable">>))

\* The loop of lines 61-63 over the entries of a food's foodNutrients, from
\* entry i on; acc is the dict built so far.
RECURSIVE NutrientLoop(_, _, _)
NutrientLoop(entries, i, acc) ==
    IF i > Len(entries) THEN Returned(acc)
    ELSE LET nutrient == entries[i]
         IN  IF nutrient.t # "dict"
             THEN Raised(Exc("AttributeError", <<"object has no attribute 'get'">>))
             ELSE LET name == DictGet(nutrient, <<"nutrientName">>, PyNull)
                  IN  IF name.t = "str" /\ name.v \in WantedNutrients
                      THEN NutrientLoop(entries, i + 1,
                               [k \in DOMAIN acc \cup {name.v} |->
                                   IF k = name.v
                                   THEN DictGet(nutrient, <<"value">>, PyNull)
                                   ELSE acc[k]])
                      ELSE NutrientLoop(entries, i + 1, acc)

\* Variant: the first item taken without looking at the list's length.
FoodsPresentAlways(foods) == TRUE

\* Line 59: len(data["foods"]) > 0
FoodsPresent(foods) == Len(foods.v) > 0

\* Lines 58-63: the nutrients kept from the decoded body.
ExtractNutrients(data) ==
    LET has == FoodsIn(data)
    IN  IF ~has.ok THEN has
        ELSE IF ~has.val THEN Returned(<<>>)
        ELSE \* "foods" in data held: data is a dict here (a list or str has no key "foods")
             IF data.t # "dict" THEN Raised(Exc("TypeError", <<"indices must be integers">>))
        ELSE LET foods == DictGet(data, <<"foods">>, PyNull)
             IN  IF foods.t \notin {"list", "str", "dict"}
                 THEN Raised(Exc("TypeError", <<"object has no len()">>))
                 ELSE IF ~FoodsPresent(foods) THEN Returned(<<>>)
                 ELSE IF Len(foods.v) = 0
                 THEN Raised(Exc("IndexError", <<"list index out of range">>))
                 ELSE IF foods.t = "dict" THEN Raised(Exc("KeyError", <<"0">>))
                 ELSE IF foods.t = "str"
                 THEN Raised(Exc("AttributeError", <<"'str' object has no attribute 'get'">>))
                 ELSE LET food == foods.v[1]
                      IN  IF food.t # "dict"
                          THEN Raised(Exc("AttributeError", <<"object has no attribute 'get'">>))
                          ELSE LET entries == DictGet(food, <<"foodNutrients">>, PyList(<<>>))
                               IN  IF entries.t # "list"
                                   THEN Raised(Exc("TypeError", <<"object is not iterable">>))
                                   ELSE NutrientLoop(entries.v, 1, <<>>)

\* What the lookup service does with one request: the transport fails, the
\* body is not JSON, or the body decodes to a value.
TransportError == [kind |-> "transport", data |-> PyNull]
NotJson == [kind |-> "not_json", data |-> PyNull]
Body(data) == [kind |-> "json", data |-> data]

\* Lines 54-65, once the service has replied to the request for meal.
fetch_nutritional_info(meal, reply) ==
    CASE reply.kind = "transport" ->
            Raised(Exc("ClientConnectionError", <<"Cannot connect to host">>))
      [] reply.kind = "not_json" ->
            Raised(Exc("ContentTypeError", <<"Attempt to decode JSON with unexpected mimetype">>))
      [] OTHER ->
            LET n == ExtractNutrients(reply.data)
            IN  IF n.ok THEN Returned(<<meal, n.val>>) ELSE n

\* Line 54, session.get with params: the query value must be a str or a number.
ParamsOk(meal) == meal.t \in {"str", "num"}

(* ------------------------------------------------------------------ *)
(* The two external services                                            *)
(* ------------------------------------------------------------------ *)
Quote == "\""

\* json.dumps of a list of names: ["n1", "n2"]
RECURSIVE dumps_items(_)
dumps_items(names) ==
    IF names = <<>> THEN <<>>
    ELSE <<Quote>> \o Head(names) \o <<Quote>>
         \o (IF Len(names) = 1 THEN <<>> ELSE <<",", " ">>)
         \o dumps_items(Tail(names))

dumps(names) == <<"[">> \o dumps_items(names) \o <<"]">>

\* Sequences over S of length at most n.
SeqsUpTo(S, n) == UNION {[1..k -> S] : k \in 0..n}

\* Meal names the generative model writes; two of them hold a bracket.
MealNames == {<<"Salad">>, <<"Soup", " ", "[", "GF">>, <<"Wrap", "]">>}

Alphabet == {"[", "]", "{", "}", Quote, ",", " ", "Salad", "1", "null"}

\* A JSON array of names and nothing else.
CleanArrays == {dumps(names) : names \in SeqsUpTo(MealNames, MaxMeals)}

\* An array of names inside prose.
Prose ==
    { <<<<"Here", " ">>, <<>>>>,
      <<<<" ">>, <<" ", "Enjoy">>>>,
      <<<<"Here", " ">>, <<" ", "[", "1", "]">>>>,
      <<<<"Day", " ", "[", "1", "]", ":", " ">>, <<>>>> }
Embedded(w, names) == w[1] \o dumps(names) \o w[2]
EmbeddedArrays ==
    {Embedded(w, names) : w \in Prose, names \in SeqsUpTo(MealNames, MaxMeals)}

\* Other answers of the model: objects, scalars, an array with elements
\* that are no strings.
OtherTexts ==
    { <<"{", Quote, "meals", Quote, ":", " ", "[", Quote, "Salad", Quote, "]", "}">>,
      <<"{", Quote, "meals", Quote, ":", " ", "1", "}">>,
      <<Quote, "Salad", Quote>>,
      <<"Sorry">>,
      <<"[", "{", "}", "]">>,
      <<"[", Quote, "Salad", Quote, ",", " ", "1", "]">> }

\* response.choices[0].message.content: a text, or None.
Contents ==
    {PyStr(s) : s \in SeqsUpTo(Alphabet, MaxLen) \cup CleanArrays
                      \cup EmbeddedArrays \cup OtherTexts}
    \cup {PyNull}

\* openai.OpenAIError: str(e) of an API status error holds the status and the
\* error body, with the body's error code in it.
OpenAIError(type, code) ==
    [type |-> type, code |-> code,
     str |-> IF code = "" THEN <<"Connection error.">>
             ELSE <<"Error code: 4xx - ", "{'error': {'code': '", code, "'}}">>]

NoOpenAIError == [type |-> "", code |-> "", str |-> <<>>]

OpenAIErrors ==
    { OpenAIError("RateLimitError", "insufficient_quota"),
      OpenAIError("RateLimitError", "rate_limit_exceeded"),
      OpenAIError("AuthenticationError", "invalid_api_key"),
      OpenAIError("APIConnectionError", "") }

\* Bodies of the nutrient service.
Nutrient(name, value) ==
    PyDict(<< <<<<"nutrientName">>, PyStr(<<name>>)>>, <<<<"value">>, PyNum(<<value>>)>> >>)
Food(nutrients) == PyDict(<< <<<<"foodNutrients">>, PyList(nutrients)>> >>)
Foods(foods) == PyDict(<< <<<<"foods">>, foods>> >>)

EnergyAndSodium ==
    Body(Foods(PyList(<<Food(<<Nutrient("Energy", "250"), Nutrient("Sodium", "10")>>)>>)))
TwoFoods ==
    Body(Foods(PyList(<<Food(<<Nutrient("Protein", "5"),
                               Nutrient("Sugars", "2"),
                               Nutrient("Fiber, total dietary", "3"),
                               Nutrient("Probiotics", "1")>>),
                        Food(<<Nutrient("Energy", "1")>>)>>)))

LookupReplies ==
    { TransportError,
      NotJson,
      Body(PyDict(<< <<<<"error">>, PyStr(<<"OVER_RATE_LIMIT">>)>> >>)),
      Body(Foods(PyNull)),
      Body(Foods(PyStr(<<"none">>))),
      Body(Foods(PyList(<<>>))),
      EnergyAndSodium,
      TwoFoods }

(* ------------------------------------------------------------------ *)
(* State                                                                *)
(* ------------------------------------------------------------------ *)
VARIABLES
    pc,             \* where generate_meal_plan stands: start, gather, done
    response,       \* what client.chat.completions.create gave
    raw_response,   \* the variable of lines 89 and 95
    meal_list,      \* line 98
    session,        \* the aiohttp.ClientSession of line 106: none, open, closed
    tasks,          \* the tasks gather made of the coroutines of line 107
    finished,       \* indices of the tasks that ended, in the order they ended
    outer,          \* the future gather returned
    outcome,        \* what the caller of the endpoint gets
    log             \* the logging calls made

vars == <<pc, response, raw_response, meal_list, session, tasks, finished,
          outer, outcome, log>>

NoExc == Exc("", <<>>)

\* What the endpoint answers: the dict of line 111, the dict of line 115 (both
\* sent with status 200), or the HTTPException of line 120.
NoOutcome ==
    [kind |-> "none", status_code |-> "", detail |-> <<>>, meal_plan |-> <<>>,
     nutritional_info |-> <<>>]
MealPlanResult(meals, info) ==
    [kind |-> "result", status_code |-> "200", detail |-> <<>>, meal_plan |-> meals,
     nutritional_info |-> info]
QuotaExceeded ==
    [kind |-> "error", status_code |-> "200",
     detail |-> <<"OpenAI API quota exceeded. Please check your OpenAI account or upgrade your plan.">>,
     meal_plan |-> <<>>, nutritional_info |-> <<>>]
\* Lines 118-120.
UnexpectedError(e) ==
    [kind |-> "HTTPException", status_code |-> "500",
     detail |-> <<"An unexpected error occurred: ">> \o e.str,
     meal_plan |-> <<>>, nutritional_info |-> <<>>]
UnexpectedErrorLog(e) == <<"ERROR", "Unexpected Error: %s", e.str>>

\* Variant: the quota answer for every rate-limit error.
QuotaReportedByType(e) == e.type = "RateLimitError"

\* Lines 112-117: the quota answer is returned, any other error raised again.
QuotaReported(e) == Contains(e.str, "insufficient_quota")
HandleOpenAIError(e) ==
    IF QuotaReported(e) THEN QuotaExceeded ELSE UnexpectedError(e)
HandleOpenAIErrorLog(e) ==
    <<<<"ERROR", "OpenAI API Error: %s", e.str>>>>
    \o (IF QuotaReported(e) THEN <<>> ELSE <<UnexpectedErrorLog(e)>>)

\* Lines 93-95: the text json.loads is given.
ExtractJson(stripped) ==
    LET json_match == re_search(stripped)
    IN  IF json_match.found THEN group0(stripped, json_match) ELSE stripped

\* Variant: a payload that does not parse counts as an empty list.
ParseMealListLenient(payload) ==
    LET d == json_loads(payload)
    IN  IF ~d.ok THEN Returned(<<>>)
        ELSE IF ~isinstance_list(d.val)
        THEN Raised(Exc("ValueError", <<"OpenAI response is not a valid JSON list.">>))
        ELSE Returned(d.val.v)

\* Lines 97-103: the meal list, or the exception raised.
ParseMealList(payload) ==
    LET d == json_loads(payload)
    IN  IF ~d.ok
        THEN Raised(HTTPException("500",
                 <<"OpenAI response is not in expected JSON format: ", d.msg>>))
        ELSE IF ~isinstance_list(d.val)
        THEN Raised(Exc("ValueError", <<"OpenAI response is not a valid JSON list.">>))
        ELSE Returned(d.val.v)
ParseMealListLog(payload) ==
    IF json_loads(payload).ok THEN <<>>
    ELSE <<<<"ERROR", "Failed to parse OpenAI response as JSON: %s", payload>>>>

\* A task of line 107: its state, its meal, the reply its request got (none
\* before it has one), and what it returned or raised.
NoReply == [kind |-> "none", data |-> PyNull]
Task(state, meal, reply, nutrients, exc) ==
    [state |-> state, meal |-> meal, reply |-> reply, nutrients |-> nutrients,
     exc |-> exc]

AllStarted(ts) == \A i \in 1..Len(ts) : ts[i].state # "created"
Ended(t) == t.state \in {"returned", "raised"}

\* Variant: the lookups awaited one after the other.
MayRunSequential(ts, k, step) ==
    IF step = "start" THEN \A j \in 1..(k - 1) : Ended(ts[j]) ELSE TRUE

\* Line 108, when the event loop runs a step of task k.  gather schedules the
\* first steps of all tasks at once, in the order of its arguments, and the
\* loop handles a reply only after the steps that were already scheduled.
MayRun(ts, k, step) ==
    IF step = "start" THEN \A j \in 1..(k - 1) : ts[j].state # "created"
    ELSE AllStarted(ts)

\* gather's callback when task k ends: the first exception ends the outer
\* future at once; the result is set when the last task has returned.
DoneCallback(fut, ts, k) ==
    IF fut.state # "pending" THEN fut
    ELSE IF ts[k].state = "raised" THEN [state |-> "exception", exc |-> ts[k].exc]
    ELSE IF \A i \in 1..Len(ts) : ts[i].state = "returned"
    THEN [state |-> "result", exc |-> NoExc]
    ELSE fut

\* Line 109: {meal: data for meal, data in results}, results in task order.
RECURSIVE DictOfResults(_, _, _)
DictOfResults(ts, i, acc) ==
    IF i > Len(ts) THEN acc
    ELSE DictOfResults(ts, i + 1,
             [m \in DOMAIN acc \cup {ts[i].meal} |->
                 IF m = ts[i].meal THEN ts[i].nutrients ELSE acc[m]])

\* Variant: the pairs merged in the order the lookups completed.
BuildInCompletionOrder(ts) ==
    DictOfResults([n \in 1..Len(finished) |-> ts[finished[n]]], 1, <<>>)

\* Variant: a meal with an empty record gets no key.
BuildSkippingEmpty(ts) ==
    LET full == DictOfResults(ts, 1, <<>>)
    IN  [m \in {x \in DOMAIN full : full[x] # <<>>} |-> full[m]]

build_nutritional_info(ts) == DictOfResults(ts, 1, <<>>)

\* Variant: the session closed only after gather returned.
CloseOnSuccessOnly(s, raised) == IF raised THEN s ELSE "closed"

\* Line 106: leaving the async with block closes the session, whether the
\* block ended normally or raised.
aexit(s, raised) == "closed"

Init ==
    /\ pc = "start"
    /\ response = [kind |-> "none", content |-> PyNull, exc |-> NoOpenAIError]
    /\ raw_response = <<>>
    /\ meal_list = <<>>
    /\ session = "none"
    /\ tasks = <<>>
    /\ finished = <<>>
    /\ outer = [state |-> "none", exc |-> NoExc]
    /\ outcome = NoOutcome
    /\ log = <<>>

\* Line 82 raises: lines 112-120.
GenerateRaises(e) ==
    /\ pc = "start"
    /\ response' = [kind |-> "error", content |-> PyNull, exc |-> e]
    /\ outcome' = HandleOpenAIError(e)
    /\ log' = log \o HandleOpenAIErrorLog(e)
    /\ pc' = "done"
    /\ UNCHANGED <<raw_response, meal_list, session, tasks, finished, outer>>

\* Line 82 returns a message without text: line 89 raises AttributeError.
GenerateNoContent ==
    /\ pc = "start"
    /\ response' = [kind |-> "message", content |-> PyNull, exc |-> NoOpenAIError]
    /\ LET e == Exc("AttributeError", <<"'NoneType' object has no attribute 'strip'">>)
       IN  /\ outcome' = UnexpectedError(e)
           /\ log' = Append(log, UnexpectedErrorLog(e))
    /\ pc' = "done"
    /\ UNCHANGED <<raw_response, meal_list, session, tasks, finished, outer>>

\* Line 82 returns a text: lines 89-108, up to the await of gather.
GenerateResponds(content) ==
    /\ pc = "start"
    /\ content.t = "str"
    /\ response' = [kind |-> "message", content |-> content, exc |-> NoOpenAIError]
    /\ LET stripped == strip(content.v)
           payload == ExtractJson(stripped)
           parsed == ParseMealList(payload)
           info == <<"INFO", "Raw OpenAI Response: %s", stripped>>
       IN  /\ raw_response' = payload
           /\ IF parsed.ok
              THEN /\ meal_list' = parsed.val
                   /\ session' = "open"
                   /\ tasks' = [i \in 1..Len(parsed.val) |->
                                   Task("created", parsed.val[i], NoReply, <<>>, NoExc)]
                   /\ outer' = [state |-> IF parsed.val = <<>> THEN "result" ELSE "pending",
                                exc |-> NoExc]
                   /\ log' = Append(log, info)
                   /\ pc' = "gather"
                   /\ UNCHANGED outcome
              ELSE /\ outcome' = UnexpectedError(parsed.exc)
                   /\ log' = (Append(log, info) \o ParseMealListLog(payload))
                                \o <<UnexpectedErrorLog(parsed.exc)>>
                   /\ pc' = "done"
                   /\ UNCHANGED <<meal_list, session, tasks, outer>>
    /\ UNCHANGED finished

\* Task k runs to its first await: lines 53-54.  The tasks start in the order
\* gather made them.
TaskStarts(k) ==
    /\ pc = "gather"
    /\ k \in 1..Len(tasks)
    /\ tasks[k].state = "created"
    /\ MayRun(tasks, k, "start")
    /\ LET t == tasks[k]
           new == IF ParamsOk(t.meal)
                  THEN Task("pending", t.meal, NoReply, <<>>, NoExc)
                  ELSE Task("raised", t.meal, NoReply, <<>>,
                            Exc("TypeError", <<"Invalid variable type">>))
           ts == [tasks EXCEPT ![k] = new]
       IN  /\ tasks' = ts
           /\ finished' = IF Ended(new) THEN Append(finished, k) ELSE finished
           /\ outer' = DoneCallback(outer, ts, k)
    /\ UNCHANGED <<pc, response, raw_response, meal_list, session, outcome, log>>

\* The service answers the request of task k: lines 54-65.  The event loop
\* polls for replies only after every task of the gather has run its first
\* step.  A reply that arrived before the session was closed may still be
\* handled after it.
LookupCompletes(k, reply) ==
    /\ k \in 1..Len(tasks)
    /\ tasks[k].state = "pending"
    /\ MayRun(tasks, k, "reply")
    /\ LET t == tasks[k]
           r == fetch_nutritional_info(t.meal, reply)
           new == IF r.ok THEN Task("returned", r.val[1], reply, r.val[2], NoExc)
                  ELSE Task("raised", t.meal, reply, <<>>, r.exc)
           ts == [tasks EXCEPT ![k] = new]
       IN  /\ tasks' = ts
           /\ finished' = Append(finished, k)
           /\ outer' = DoneCallback(outer, ts, k)
    /\ UNCHANGED <<pc, response, raw_response, meal_list, session, outcome, log>>

\* The session was closed under the request of task k.
LookupAborted(k) ==
    /\ k \in 1..Len(tasks)
    /\ tasks[k].state = "pending"
    /\ session = "closed"
    /\ tasks' = [tasks EXCEPT ![k] =
                    Task("raised", tasks[k].meal, NoReply, <<>>,
                         Exc("ClientConnectionError", <<"Connector is closed.">>))]
    /\ finished' = Append(finished, k)
    /\ UNCHANGED <<pc, response, raw_response, meal_list, session, outer, outcome, log>>

\* gather gave the results: lines 109-111.
GatherReturns ==
    /\ pc = "gather"
    /\ outer.state = "result"
    /\ session' = aexit(session, FALSE)
    /\ outcome' = MealPlanResult(meal_list, build_nutritional_info(tasks))
    /\ pc' = "done"
    /\ UNCHANGED <<response, raw_response, meal_list, tasks, finished, outer, log>>

\* gather raised a task's exception: the session is left, lines 118-120.
GatherRaises ==
    /\ pc = "gather"
    /\ outer.state = "exception"
    /\ AllStarted(tasks)
    /\ session' = aexit(session, TRUE)
    /\ outcome' = UnexpectedError(outer.exc)
    /\ log' = Append(log, UnexpectedErrorLog(outer.exc))
    /\ pc' = "done"
    /\ UNCHANGED <<response, raw_response, meal_list, tasks, finished, outer>>

Next ==
    \/ \E e \in OpenAIErrors : GenerateRaises(e)
    \/ GenerateNoContent
    \/ pc = "start" /\ \E content \in Contents : GenerateResponds(content)
    \/ \E k \in 1..Len(tasks) : TaskStarts(k)
    \/ \E k \in 1..Len(tasks), reply \in LookupReplies : LookupCompletes(k, reply)
    \/ \E k \in 1..Len(tasks) : LookupAborted(k)
    \/ GatherReturns
    \/ GatherRaises

Spec == Init /\ [][Next]_vars

(* ------------------------------------------------------------------ *)
(* Properties                                                           *)
(* ------------------------------------------------------------------ *)
Responded == response.kind = "message" /\ response.content.t = "str"
Succeeded == outcome.kind = "result"
Failed == outcome.kind = "HTTPException"
NameValues(names) == [i \in 1..Len(names) |-> PyStr(names[i])]
Positions1(ts) == 1..Len(ts)

\* x occurs in s as a run of consecutive symbols.
IsInfix(x, s) ==
    \E i \in 0..(Len(s) - Len(x)) : SubSeq(s, i + 1, i + Len(x)) = x

\* C1: when the model's text is a clean JSON array of N names, whatever the
\* names hold, the request ends in a success result whose meal_plan is these
\* N names in order.
C1_CleanArrayGivesPlan ==
    \A names \in SeqsUpTo(MealNames, MaxMeals) :
        (Responded /\ response.content.v = dumps(names) /\ pc = "done")
            => (Succeeded /\ outcome.meal_plan = NameValues(names))

\* C2: in a success result the keys of nutritional_info are exactly the
\* distinct meal names of meal_plan, so there are at most len(meal_plan).
C2_KeysAreDistinctMeals ==
    Succeeded =>
        /\ DOMAIN outcome.nutritional_info
             = {outcome.meal_plan[i] : i \in 1..Len(outcome.meal_plan)}
        /\ Cardinality(DOMAIN outcome.nutritional_info) <= Len(outcome.meal_plan)

C2_Witness ==
    /\ Succeeded
    /\ Len(outcome.meal_plan) = 2
    /\ Cardinality(DOMAIN outcome.nutritional_info) = 1

\* The task of a meal that ended last, and the last task of a meal in the
\* order of the list.
SameMeal(k) == {i \in Positions1(tasks) : tasks[i].meal = tasks[k].meal}
EndedAt(k) == CHOOSE n \in 1..Len(finished) : finished[n] = k
LastCompleted(k) ==
    CHOOSE i \in SameMeal(k) : \A j \in SameMeal(k) : EndedAt(j) <= EndedAt(i)
LastOccurrence(k) == CHOOSE i \in SameMeal(k) : \A j \in SameMeal(k) : j <= i
AllReturned == \A i \in Positions1(tasks) : tasks[i].state = "returned"

C4_FailureDoesNotAbortOthers ==
    \A k \in Positions1(tasks) :
        /\ tasks[k].state = "pending" => session # "closed"
        /\ (pc = "done" /\ tasks[k].state = "returned") => Succeeded

\* C5: the request has an outcome, and its session is closed, only once
\* every lookup issued for it has completed.
C5_FanInBarrier ==
    (outcome.kind # "none" \/ session = "closed")
        => \A k \in Positions1(tasks) : Ended(tasks[k])

\* A reply that is a failed lookup: no reply, no JSON, or JSON that is no
\* object with a list under "foods".
FailedLookup(reply) ==
    \/ reply.kind \in {"transport", "not_json"}
    \/ /\ reply.kind = "json"
       /\ \/ reply.data.t # "dict"
          \/ ~HasKey(reply.data, <<"foods">>)
          \/ DictGet(reply.data, <<"foods">>, PyNull).t # "list"

\* C6: every failed lookup is handled alike: never one degraded to an empty
\* record and another raised.
C6_UniformFailurePolicy ==
    \A i, j \in Positions1(tasks) :
        ~ /\ FailedLookup(tasks[i].reply) /\ FailedLookup(tasks[j].reply)
          /\ tasks[i].state = "returned" /\ tasks[i].nutrients = <<>>
          /\ tasks[j].state = "raised"

\* C7: a payload that does not parse, or parses to something that is no
\* array, ends the request in a failure, never in a success result.
C7_BadPayloadFails ==
    (Responded /\ (~json_loads(raw_response).ok
                    \/ ~isinstance_list(json_loads(raw_response).val)))
        => (pc = "done" /\ Failed /\ outcome.status_code = "500"
            /\ session = "none" /\ tasks = <<>>)

C7_Witness ==
    /\ Responded
    /\ json_loads(raw_response).ok
    /\ json_loads(raw_response).val.t = "dict"
    /\ Failed

\* C8: a text without a bracketed array fails the call, and the raw text is
\* in the error the caller gets.
C8_NoArrayFailsWithRawText ==
    (Responded /\ ~re_search(strip(response.content.v)).found)
        => (Failed /\ IsInfix(strip(response.content.v), outcome.detail))

\* C9: an array of names inside prose is extracted exactly and parsed.
C9_EmbeddedArrayExtracted ==
    \A w \in Prose, names \in SeqsUpTo(MealNames, MaxMeals) :
        (Responded /\ response.content.v = Embedded(w, names))
            => (raw_response = dumps(names) /\ meal_list = NameValues(names))

\* C10: a quota error of the generative service gives the quota answer and
\* no HTTPException; any other error of the service gives a 500, never the
\* quota answer nor a result.
C10_QuotaDistinguished ==
    response.kind = "error" =>
        IF response.exc.code = "insufficient_quota"
        THEN outcome = QuotaExceeded /\ ~Failed
        ELSE Failed /\ outcome.status_code = "500"

C10_Witness ==
    /\ response.kind = "error"
    /\ response.exc.code = "insufficient_quota"
    /\ outcome = QuotaExceeded

\* C11: the lookups of a request are issued without waiting for each other:
\* the next lookup can be issued whatever the state of the lookups issued
\* before it, and no reply is handled and no outcome produced before every
\* task has run its first step.
C11_FanOut ==
    /\ \A k \in Positions1(tasks) :
          (pc = "gather" /\ tasks[k].state = "created"
              /\ \A j \in 1..(k - 1) : tasks[j].state # "created")
            => ENABLED TaskStarts(k)
    /\ \A k \in Positions1(tasks) : tasks[k].reply # NoReply => AllStarted(tasks)
    /\ outcome.kind # "none" => AllStarted(tasks)

\* Both lookups in flight, none completed.
C11_Witness ==
    /\ Len(tasks) = 2
    /\ \A k \in Positions1(tasks) : tasks[k].state = "pending"
    /\ finished = <<>>

\* C12: a request that reaches the resolution has its own session, open
\* while it resolves, and the session is closed on every exit from the
\* resolution: no request ends with its session open, and no lookup exists
\* outside a session.
C12_SessionScoped ==
    /\ pc = "gather" => session = "open"
    /\ session = "open" => pc = "gather"
    /\ pc = "done" => session \in {"none", "closed"}
    /\ (pc = "done" /\ (Succeeded \/ tasks # <<>>)) => session = "closed"
    /\ session = "none" => tasks = <<>>

\* A lookup failed and the request ended: the session is closed.
C12_Witness ==
    /\ pc = "done"
    /\ Failed
    /\ \E k \in Positions1(tasks) : tasks[k].state = "raised" /\ tasks[k].reply # NoReply
    /\ session = "closed"

EmptyFoodList == Body(Foods(PyList(<<>>)))

FirstFoodEntries(reply) ==
    DictGet(DictGet(reply.data, <<"foods">>, PyNull).v[1],
            <<"foodNutrients">>, PyList(<<>>)).v
EntryName(entry) == DictGet(entry, <<"nutrientName">>, PyNull).v
EntryValue(entry) == DictGet(entry, <<"value">>, PyNull)
KeyNutrients ==
    {<<"Energy">>, <<"Protein">>, <<"Fiber, total dietary">>, <<"Probiotics">>}
HasFoodItem(reply) ==
    /\ reply.kind = "json"
    /\ reply.data.t = "dict"
    /\ DictGet(reply.data, <<"foods">>, PyNull).t = "list"
    /\ Len(DictGet(reply.data, <<"foods">>, PyNull).v) > 0

\* C14: the record of a meal is made of the first food item only; it holds
\* the item's entries named Energy, Protein, "Fiber, total dietary" or
\* Probiotics, each with its value, and nothing else; Energy 250 with
\* Sodium 10 gives exactly {Energy: 250}.
C14_FirstItemKeyNutrientsOnly ==
    \A k \in Positions1(tasks) :
        (tasks[k].state = "returned" /\ HasFoodItem(tasks[k].reply)) =>
            LET entries == FirstFoodEntries(tasks[k].reply)
                kept == {i \in 1..Len(entries) : EntryName(entries[i]) \in KeyNutrients}
            IN  /\ DOMAIN tasks[k].nutrients = {EntryName(entries[i]) : i \in kept}
                /\ \A i \in kept :
                      tasks[k].nutrients[EntryName(entries[i])] = EntryValue(entries[i])
                /\ tasks[k].reply = EnergyAndSodium
                      => tasks[k].nutrients = (<<"Energy">> :> PyNum(<<"250">>))

\* A reply with two food items: the record holds the three key nutrients of
\* the first item, not its Sugars and not the second item's Energy.
C14_Witness ==
    \E k \in Positions1(tasks) :
        /\ tasks[k].state = "returned"
        /\ tasks[k].reply = TwoFoods
        /\ DOMAIN tasks[k].nutrients
             = {<<"Protein">>, <<"Fiber, total dietary">>, <<"Probiotics">>}

\* The record the lookup at position i gives, from its meal and its reply
\* alone, and the mapping these records give when merged by position.
RecordAt(i) == fetch_nutritional_info(tasks[i].meal, tasks[i].reply).val[2]
LastPositionOf(m) ==
    CHOOSE i \in Positions1(tasks) :
        /\ tasks[i].meal = m
        /\ \A j \in Positions1(tasks) : tasks[j].meal = m => j <= i
PositionalInfo ==
    [m \in {tasks[i].meal : i \in Positions1(tasks)} |-> RecordAt(LastPositionOf(m))]

\* C15: a success result is determined by the meal list and the reply at
\* each position of the list, whatever the order the lookups completed in:
\* meal_plan is the list, and each name maps to the record of its last
\* position.  Two runs with the same list and the same replies per position
\* so end in the same result.
C15_ResultIndependentOfCompletionOrder ==
    Succeeded =>
        /\ meal_list = [i \in Positions1(tasks) |-> tasks[i].meal]
        /\ outcome = MealPlanResult(meal_list, PositionalInfo)

\* Two meals with different records, the second lookup completing first.
C15_Witness ==
    /\ Succeeded
    /\ Len(tasks) = 2
    /\ tasks[1].meal # tasks[2].meal
    /\ tasks[1].nutrients # tasks[2].nutrients
    /\ finished = <<2, 1>>

\* C16: only meal-name strings are resolved and returned: no lookup is made
\* for an element that is no string, and every entry of meal_plan in a
\* success result is a string.
C16_OnlyStringMeals ==
    /\ \A k \in Positions1(tasks) :
          tasks[k].state \in {"pending", "returned"} => tasks[k].meal.t = "str"
    /\ Succeeded =>
          \A i \in 1..Len(outcome.meal_plan) : outcome.meal_plan[i].t = "str"
====
